---------------------------- MODULE Spec2Model ----------------------------
(***************************************************************************)
(* Model of pkg/tester/tester.go: the gitremote tester of kubetest2.       *)
(*                                                                         *)
(* One run of Main is modelled as a sequential process whose position is   *)
(* pc.  Go strings are sequences of one-character strings, so that the     *)
(* shell-word splitting of --ginkgo-args, strconv.Itoa and                 *)
(* time.Duration.String are computed character by character.  Durations    *)
(* are counted in whole seconds.                                           *)
(***************************************************************************)
EXTENDS Integers, Sequences, FiniteSets, TLC

VARIABLES
    t,          \* the Tester struct (tester.go:21-38)
    environ,    \* the process environment read through os.LookupEnv
    pc,         \* position of the run inside Main/Execute/Test
    err,        \* the error value travelling up to Main ("nil" when none)
    help,       \* *help after fs.Parse
    printed,    \* TRUE once fs.PrintDefaults wrote to standard output
    metadata,   \* number of calls of testers.WriteVersionToMetadata
    clones,     \* the calls of git.PlainClone, in order: [dir, url, ok]
    launches,   \* the calls of cmd.Run, in order: [path, args, env, started, exit]
    exitCode    \* exit status of the process, -1 while it is running

vars == <<t, environ, pc, err, help, printed, metadata, clones, launches, exitCode>>

-----------------------------------------------------------------------------
(* Bounds and input sets *)

\* longest --ginkgo-args value, counted in pieces of GinkgoArgsPieces
MaxPieces == 3

\* the empty Go string
Empty == <<>>

\* the literal "--nodes=" of tester.go:112
NodesFlag == <<"-", "-", "n", "o", "d", "e", "s", "=">>

\* what the values of --ginkgo-args are made of: the characters shellquote
\* treats specially, an ordinary character, and the text "--nodes=2"
GinkgoArgsPieces ==
    { <<" ">>, <<"'">>, <<"\"">>, <<"\\">>, <<"a">>, NodesFlag \o <<"2">> }

RECURSIVE Concat(_)
Concat(ss) == IF ss = <<>> THEN <<>> ELSE Head(ss) \o Concat(Tail(ss))

RECURSIVE SeqsUpTo(_, _)
SeqsUpTo(S, n) ==
    IF n = 0 THEN { <<>> }
    ELSE LET shorter == SeqsUpTo(S, n - 1)
         IN  shorter \cup { Append(s, x) : s \in shorter, x \in S }

GinkgoArgsValues == { Concat(ps) : ps \in SeqsUpTo(GinkgoArgsPieces, MaxPieces) }

ParallelValues == {0, 1, 2}
FlakeAttemptsValues == {0, 1}
TimeoutValues == {-1, 90, 86400}
RegexValues == { [skip |-> Empty, focus |-> Empty], [skip |-> <<"s">>, focus |-> <<"f">>] }

\* os.LookupEnv results: (value, ok)
EnvUnset == [ok |-> FALSE, val |-> Empty]
EnvSet(v) == [ok |-> TRUE, val |-> v]

RunDirValues == { EnvUnset, EnvSet(Empty), EnvSet(<<"/", "r">>) }
KubeconfigValues == { EnvUnset, EnvSet(Empty), EnvSet(<<"/", "k">>) }

\* what os.Getwd returns when it succeeds
Cwd == <<"/", "w">>

\* what artifacts.BaseDir() returns
BaseDir == <<"/", "o">>

\* value of --repo
RepoURL == <<"g">>

-----------------------------------------------------------------------------
(* strconv.Itoa and time.Duration.String *)

DigitChars == <<"0", "1", "2", "3", "4", "5", "6", "7", "8", "9">>

RECURSIVE Digits(_)
Digits(n) ==
    IF n < 10 THEN <<DigitChars[n + 1]>>
    ELSE Digits(n \div 10) \o <<DigitChars[(n % 10) + 1]>>

\* strconv.Itoa (tester.go:112)
Itoa(n) == IF n < 0 THEN <<"-">> \o Digits(0 - n) ELSE Digits(n)

\* time.Duration.String for a whole number of seconds (tester.go:104):
\* "0s", "59s", "1m30s", "24h0m0s", with a leading "-" when negative
DurationString(d) ==
    LET u == IF d < 0 THEN 0 - d ELSE d
        hours == u \div 3600
        mins == u \div 60
        body == (IF hours > 0 THEN Digits(hours) \o <<"h">> ELSE <<>>)
                \o (IF mins > 0 THEN Digits(mins % 60) \o <<"m">> ELSE <<>>)
                \o Digits(u % 60) \o <<"s">>
    IN  IF d < 0 THEN <<"-">> \o body ELSE body

-----------------------------------------------------------------------------
(* shellquote.Split, as called at tester.go:107 *)

splitChars == {" ", "\n", "\t"}
singleChar == "'"
doubleChar == "\""
escapeChar == "\\"
\* the backquote, which a TLA+ string cannot hold, is written "BACKQUOTE"
doubleEscapeChars == {"$", "BACKQUOTE", "\"", "\n", "\\"}

\* index of the first character of s that is in set, 0 when there is none
RECURSIVE FirstIn(_, _, _)
FirstIn(s, set, i) ==
    IF i > Len(s) THEN 0
    ELSE IF s[i] \in set THEN i
    ELSE FirstIn(s, set, i + 1)

From(s, i) == SubSeq(s, i, Len(s))

WordOk(w, rest) == [err |-> "nil", word |-> w, remainder |-> rest]
WordErr(e) == [err |-> e, word |-> <<>>, remainder |-> <<>>]

RECURSIVE splitWordRaw(_, _)
RECURSIVE splitWordEscape(_, _)
RECURSIVE splitWordSingle(_, _)
RECURSIVE splitWordDouble(_, _, _)

\* the raw: block of splitWord
splitWordRaw(input, buf) ==
    LET i == FirstIn(input, {singleChar, doubleChar, escapeChar} \cup splitChars, 1)
    IN  IF i = 0 THEN WordOk(buf \o input, <<>>)
        ELSE LET c == input[i]
                 written == buf \o SubSeq(input, 1, i - 1)
                 cur == From(input, i + 1)
             IN  IF c = singleChar THEN splitWordSingle(cur, written)
                 ELSE IF c = doubleChar THEN splitWordDouble(cur, 0, written)
                 ELSE IF c = escapeChar THEN splitWordEscape(cur, written)
                 ELSE WordOk(written, cur)

\* the escape: block
splitWordEscape(input, buf) ==
    IF input = <<>> THEN WordErr("UnterminatedEscapeError")
    ELSE splitWordRaw(Tail(input),
                      IF Head(input) = "\n" THEN buf ELSE buf \o <<Head(input)>>)

\* the single: block
splitWordSingle(input, buf) ==
    LET i == FirstIn(input, {singleChar}, 1)
    IN  IF i = 0 THEN WordErr("UnterminatedSingleQuoteError")
        ELSE splitWordRaw(From(input, i + 1), buf \o SubSeq(input, 1, i - 1))

\* the double: block; k characters of input have been scanned and not written
splitWordDouble(input, k, buf) ==
    IF k >= Len(input) THEN WordErr("UnterminatedDoubleQuoteError")
    ELSE LET c == input[k + 1]
         IN  IF c = doubleChar
             THEN splitWordRaw(From(input, k + 2), buf \o SubSeq(input, 1, k))
             ELSE IF c = escapeChar /\ k + 2 <= Len(input)
             THEN LET c2 == input[k + 2]
                  IN  IF c2 \in doubleEscapeChars
                      THEN splitWordDouble(From(input, k + 3), 0,
                               buf \o SubSeq(input, 1, k)
                                   \o (IF c2 = "\n" THEN <<>> ELSE <<c2>>))
                      ELSE splitWordDouble(input, k + 2, buf)
             ELSE splitWordDouble(input, k + 1, buf)

splitWord(input) == splitWordRaw(input, <<>>)

RECURSIVE SplitLoop(_, _)
SplitLoop(input, words) ==
    IF input = <<>> THEN [err |-> "nil", words |-> words]
    ELSE IF Head(input) \in splitChars THEN SplitLoop(Tail(input), words)
    ELSE IF Head(input) = escapeChar /\ Len(input) = 1
    THEN [err |-> "UnterminatedEscapeError", words |-> words]
    ELSE IF Head(input) = escapeChar /\ input[2] = "\n"
    THEN SplitLoop(From(input, 3), words)
    ELSE LET w == splitWord(input)
         IN  IF w.err # "nil" THEN [err |-> w.err, words |-> words]
             ELSE SplitLoop(w.remainder, Append(words, w.word))

\* shellquote.Split(input): (words, err)
Split(input) == SplitLoop(input, <<>>)

-----------------------------------------------------------------------------
(* The Tester struct and its construction *)

\* NewDefaultTester (tester.go:136-144); the fields it does not name are the
\* zero values of their types
NewDefaultTester ==
    [ FlakeAttempts |-> 1,
      GinkgoArgs |-> Empty,
      Parallel |-> 1,
      SkipRegex |-> Empty,
      FocusRegex |-> Empty,
      Timeout |-> 24 * 3600,
      Env |-> <<>>,
      Repo |-> Empty,
      kubeconfigPath |-> Empty,
      runDir |-> Empty,
      e2eTestPath |-> Empty,
      ginkgoPath |-> Empty,
      kubectlPath |-> Empty ]

\* the values the exported fields can be given on the command line
FlagValues ==
    { [ FlakeAttempts |-> f, GinkgoArgs |-> g, Parallel |-> p,
        SkipRegex |-> r.skip, FocusRegex |-> r.focus, Timeout |-> d,
        Env |-> <<>>, Repo |-> RepoURL ] :
        f \in FlakeAttemptsValues, g \in GinkgoArgsValues, p \in ParallelValues,
        r \in RegexValues, d \in TimeoutValues }

\* fs.Parse stores the flag values into the exported fields; the unexported
\* fields are no flags and keep their values
ParseInto(tt, fl) ==
    [ tt EXCEPT !.FlakeAttempts = fl.FlakeAttempts,
                !.GinkgoArgs = fl.GinkgoArgs,
                !.Parallel = fl.Parallel,
                !.SkipRegex = fl.SkipRegex,
                !.FocusRegex = fl.FocusRegex,
                !.Timeout = fl.Timeout,
                !.Env = fl.Env,
                !.Repo = fl.Repo ]

\* exit status of klog.Fatalf
FatalExit == 255

-----------------------------------------------------------------------------
(* Command assembly, tester.go:99-115 *)

KubeconfigFlag ==
    <<"-", "-", "k", "u", "b", "e",
      "c", "o", "n", "f", "i", "g", "=">>
SkipFlag ==
    <<"-", "-", "g", "i", "n", "k", "g",
      "o", ".", "s", "k", "i", "p", "=">>
FocusFlag ==
    <<"-", "-", "g", "i", "n", "k", "g",
      "o", ".", "f", "o", "c", "u", "s", "=">>
ReportDirFlag ==
    <<"-", "-", "r", "e", "p", "o",
      "r", "t", "-", "d", "i", "r", "=">>
TimeoutFlag ==
    <<"-", "-", "g", "i", "n", "k", "g", "o",
      ".", "t", "i", "m", "e", "o", "u", "t", "=">>
Separator == <<"-", "-">>

\* e2eTestArgs, tester.go:99-105
e2eTestArgs(tt) ==
    << KubeconfigFlag \o tt.kubeconfigPath,
       SkipFlag \o tt.SkipRegex,
       FocusFlag \o tt.FocusRegex,
       ReportDirFlag \o BaseDir,
       TimeoutFlag \o DurationString(tt.Timeout) >>

\* ginkgoArgs with the parallelism flag put in front of the extra arguments
ginkgoArgs_NodesFirst(extraGingkoArgs, tt) ==
    (<< NodesFlag \o Itoa(tt.Parallel) >> \o extraGingkoArgs
        \o << tt.e2eTestPath, Separator >>) \o e2eTestArgs(tt)

\* ginkgoArgs with the parallelism flag left to the extra arguments
ginkgoArgs_NoNodes(extraGingkoArgs, tt) ==
    (extraGingkoArgs \o << tt.e2eTestPath, Separator >>) \o e2eTestArgs(tt)

\* ginkgoArgs, tester.go:111-115
ginkgoArgs(extraGingkoArgs, tt) ==
    (extraGingkoArgs \o << NodesFlag \o Itoa(tt.Parallel), tt.e2eTestPath, Separator >>)
        \o e2eTestArgs(tt)

-----------------------------------------------------------------------------
(* The run *)

Init ==
    /\ t = NewDefaultTester
    /\ environ \in [ KUBETEST2_RUN_DIR : RunDirValues, KUBECONFIG : KubeconfigValues ]
    /\ pc = "Execute"
    /\ err = "nil"
    /\ help = FALSE
    /\ printed = FALSE
    /\ metadata = 0
    /\ clones = <<>>
    /\ launches = <<>>
    /\ exitCode = -1

\* Execute returns e to Main
Return(e) == /\ err' = e
             /\ pc' = "Main"

\* Execute, tester.go:41-52: gpflag.Parse or fs.Parse rejects the command line
ExecuteParseError ==
    /\ pc = "Execute"
    /\ \E e \in {"failed to initialize tester", "failed to parse flags"} : Return(e)
    /\ UNCHANGED <<t, environ, help, printed, metadata, clones, launches, exitCode>>

\* ExecuteHelp without the return of tester.go:57
ExecuteHelp_NoReturn ==
    /\ pc = "Execute"
    /\ \E fl \in FlagValues : t' = ParseInto(t, fl)
    /\ help' = TRUE
    /\ printed' = TRUE
    /\ pc' = "initKubetest2Info"
    /\ UNCHANGED <<environ, err, metadata, clones, launches, exitCode>>

\* Execute, tester.go:41-58: the command line holds -h or --help
ExecuteHelp ==
    /\ pc = "Execute"
    /\ \E fl \in FlagValues : t' = ParseInto(t, fl)
    /\ help' = TRUE
    /\ printed' = TRUE
    /\ Return("nil")
    /\ UNCHANGED <<environ, metadata, clones, launches, exitCode>>

\* Execute, tester.go:41-60: the command line is parsed and asks for no help
ExecuteParsed ==
    /\ pc = "Execute"
    /\ \E fl \in FlagValues : t' = ParseInto(t, fl)
    /\ pc' = "initKubetest2Info"
    /\ UNCHANGED <<environ, err, help, printed, metadata, clones, launches, exitCode>>

\* initKubetest2Info reading the variable with os.Getenv: an empty value counts
\* as unset
initKubetest2Info_Getenv ==
    /\ pc = "initKubetest2Info"
    /\ LET dir == environ.KUBETEST2_RUN_DIR
       IN  IF dir.ok /\ dir.val # Empty
           THEN /\ t' = [t EXCEPT !.runDir = dir.val]
                /\ pc' = "Test"
                /\ UNCHANGED err
           ELSE \E getwdOk \in BOOLEAN :
                   IF getwdOk
                   THEN /\ t' = [t EXCEPT !.runDir = Cwd]
                        /\ pc' = "Test"
                        /\ UNCHANGED err
                   ELSE /\ Return("failed to set run dir")
                        /\ UNCHANGED t
    /\ UNCHANGED <<environ, help, printed, metadata, clones, launches, exitCode>>

\* initKubetest2Info, tester.go:67-79, and Execute's check of its result
initKubetest2Info ==
    /\ pc = "initKubetest2Info"
    /\ LET dir == environ.KUBETEST2_RUN_DIR
       IN  IF dir.ok
           THEN /\ t' = [t EXCEPT !.runDir = dir.val]
                /\ pc' = "Test"
                /\ UNCHANGED err
           ELSE \E getwdOk \in BOOLEAN :
                   IF getwdOk
                   THEN /\ t' = [t EXCEPT !.runDir = Cwd]
                        /\ pc' = "Test"
                        /\ UNCHANGED err
                   ELSE /\ Return("failed to set run dir")
                        /\ UNCHANGED t
    /\ UNCHANGED <<environ, help, printed, metadata, clones, launches, exitCode>>

\* WriteVersionToMetadata with its error recorded but the run carried on
WriteVersionToMetadata_CarryOn ==
    /\ pc = "Test"
    /\ metadata' = metadata + 1
    /\ \E ok \in BOOLEAN :
          /\ pc' = "pretestSetup"
          /\ err' = IF ok THEN err ELSE "failed to write metadata"
    /\ UNCHANGED <<t, environ, help, printed, clones, launches, exitCode>>

\* Test, tester.go:83-85
WriteVersionToMetadata ==
    /\ pc = "Test"
    /\ metadata' = metadata + 1
    /\ \E ok \in BOOLEAN :
          IF ok THEN pc' = "pretestSetup" /\ UNCHANGED err
          ELSE Return("failed to write metadata")
    /\ UNCHANGED <<t, environ, help, printed, clones, launches, exitCode>>

\* pretestSetup with the clone's error dropped
pretestSetup_DropError ==
    /\ pc = "pretestSetup"
    /\ \E ok \in BOOLEAN :
          clones' = Append(clones, [dir |-> t.runDir, url |-> t.Repo, ok |-> ok])
    /\ pc' = "kubeconfig"
    /\ UNCHANGED <<t, environ, err, help, printed, metadata, launches, exitCode>>

\* pretestSetup, tester.go:124-134, and Test's check of its result, 87-89
pretestSetup ==
    /\ pc = "pretestSetup"
    /\ \E ok \in BOOLEAN :
          /\ clones' = Append(clones, [dir |-> t.runDir, url |-> t.Repo, ok |-> ok])
          /\ IF ok THEN pc' = "kubeconfig" /\ UNCHANGED err
             ELSE Return("failed to clone repo")
    /\ UNCHANGED <<t, environ, help, printed, metadata, launches, exitCode>>

\* ResolveKubeconfig reading the variable with os.Getenv: unset gives ""
ResolveKubeconfig_Getenv ==
    /\ pc = "kubeconfig"
    /\ IF t.kubeconfigPath = Empty
       THEN t' = [t EXCEPT !.kubeconfigPath = environ.KUBECONFIG.val]
       ELSE UNCHANGED t
    /\ pc' = "ginkgo"
    /\ UNCHANGED <<environ, err, help, printed, metadata, clones, launches, exitCode>>

\* Test, tester.go:91-97
ResolveKubeconfig ==
    /\ pc = "kubeconfig"
    /\ IF t.kubeconfigPath = Empty
       THEN LET kubeconfig == environ.KUBECONFIG
            IN  IF kubeconfig.ok
                THEN /\ t' = [t EXCEPT !.kubeconfigPath = kubeconfig.val]
                     /\ pc' = "ginkgo"
                     /\ UNCHANGED err
                ELSE /\ Return("kubeconfig path not provided")
                     /\ UNCHANGED t
       ELSE /\ pc' = "ginkgo"
            /\ UNCHANGED <<t, err>>
    /\ UNCHANGED <<environ, help, printed, metadata, clones, launches, exitCode>>

\* exit statuses of a child that was started
ExitStatuses == {0, 1}

\* cmd.Run, tester.go:118-121: a command with no path is not started
Run(path, args, env, status) ==
    [ path |-> path, args |-> args, env |-> env,
      started |-> path # Empty,
      exit |-> IF path # Empty THEN status ELSE -1 ]

RunError(cmd) ==
    IF ~cmd.started THEN "exec: no command"
    ELSE IF cmd.exit # 0 THEN "exit status"
    ELSE "nil"

\* Test, tester.go:99-121
RunGinkgo ==
    /\ pc = "ginkgo"
    /\ LET split == Split(t.GinkgoArgs)
       IN  IF split.err # "nil"
           THEN /\ Return("error parsing --gingko-args")
                /\ UNCHANGED launches
           ELSE \E status \in ExitStatuses :
                   LET cmd == Run(t.ginkgoPath, ginkgoArgs(split.words, t), t.Env, status)
                   IN  /\ launches' = Append(launches, cmd)
                       /\ Return(RunError(cmd))
    /\ UNCHANGED <<t, environ, help, printed, metadata, clones, exitCode>>

\* Main, tester.go:146-151
Main ==
    /\ pc = "Main"
    /\ exitCode' = IF err # "nil" THEN FatalExit ELSE 0
    /\ pc' = "exit"
    /\ UNCHANGED <<t, environ, err, help, printed, metadata, clones, launches>>

Next ==
    \/ ExecuteParseError
    \/ ExecuteHelp
    \/ ExecuteParsed
    \/ initKubetest2Info
    \/ WriteVersionToMetadata
    \/ pretestSetup
    \/ ResolveKubeconfig
    \/ RunGinkgo
    \/ Main

Spec == Init /\ [][Next]_vars

-----------------------------------------------------------------------------
(* Vocabulary of the properties *)

Launched == launches # <<>>
Cloned == clones # <<>>
CloneFailed == \E i \in 1..Len(clones) : ~clones[i].ok
ExecuteReturned == pc \in {"Main", "exit"}
TestReturned == ExecuteReturned /\ metadata > 0

\* the tokens shellquote.Split makes of --ginkgo-args
ExtraArgs == Split(t.GinkgoArgs).words

IsPrefix(p, s) == Len(p) <= Len(s) /\ SubSeq(s, 1, Len(p)) = p
IsNodesToken(tok) == IsPrefix(NodesFlag, tok)
NodesTokens(args) == { i \in 1..Len(args) : IsNodesToken(args[i]) }

\* position of the run in the order of tester.go
Rank(p) ==
    CASE p = "Execute" -> 0
      [] p = "initKubetest2Info" -> 1
      [] p = "Test" -> 2
      [] p = "pretestSetup" -> 3
      [] p = "kubeconfig" -> 4
      [] p = "ginkgo" -> 5
      [] p = "Main" -> 6
      [] p = "exit" -> 7

-----------------------------------------------------------------------------
(* Properties *)

\* C1: every argument vector handed to the test runner is the tokens split
\* from GinkgoArgs in their order, then --nodes=<Parallel>, then e2eTestPath,
\* then "--", then --kubeconfig=, --ginkgo.skip=, --ginkgo.focus=,
\* --report-dir= and --ginkgo.timeout= with their values, and nothing else.
C1_ArgumentVector ==
    \A i \in 1..Len(launches) :
        launches[i].args =
            ExtraArgs \o
            << NodesFlag \o Itoa(t.Parallel),
               t.e2eTestPath,
               <<"-", "-">>,
               KubeconfigFlag \o t.kubeconfigPath,
               SkipFlag \o t.SkipRegex,
               FocusFlag \o t.FocusRegex,
               ReportDirFlag \o BaseDir,
               TimeoutFlag \o DurationString(t.Timeout) >>

\* a launch whose GinkgoArgs gave two different tokens
C1_Witness ==
    /\ Launched
    /\ Len(ExtraArgs) = 2
    /\ ExtraArgs[1] # ExtraArgs[2]
    /\ Len(launches[1].args) = 10

\* C2: a launch is preceded by a successful clone, and after a failed clone
\* nothing is launched and the error handed up is the clone failure.
C2_CloneBeforeLaunch ==
    /\ Launched => Cloned /\ ~CloneFailed
    /\ CloneFailed => ~Launched /\ ExecuteReturned /\ err = "failed to clone repo"

\* a run that ended on a failed clone
C2_Witness == pc = "exit" /\ CloneFailed /\ ~Launched

\* C3 as stated: with KUBECONFIG unset and no explicit path, Test returns the
\* kubeconfig-missing error and launches nothing; and a launch has a kubeconfig
\* path taken from the explicit value or else from KUBECONFIG.
C3_AsStated ==
    /\ (TestReturned /\ ~environ.KUBECONFIG.ok /\ NewDefaultTester.kubeconfigPath = Empty)
          => err = "kubeconfig path not provided" /\ ~Launched
    /\ Launched =>
          /\ NewDefaultTester.kubeconfigPath # Empty \/ environ.KUBECONFIG.ok
          /\ t.kubeconfigPath =
                IF NewDefaultTester.kubeconfigPath # Empty
                THEN NewDefaultTester.kubeconfigPath
                ELSE environ.KUBECONFIG.val

\* C3 amended: with KUBECONFIG unset and no explicit path nothing is ever
\* launched, and Test returns the kubeconfig-missing error whenever the
\* metadata write and the clone before it succeeded; and a launch has a
\* kubeconfig path taken from the explicit value or else from KUBECONFIG.
C3_KubeconfigResolved ==
    /\ (~environ.KUBECONFIG.ok /\ NewDefaultTester.kubeconfigPath = Empty)
          => /\ ~Launched
             /\ (TestReturned /\ Cloned /\ ~CloneFailed)
                   => err = "kubeconfig path not provided"
    /\ Launched =>
          /\ NewDefaultTester.kubeconfigPath # Empty \/ environ.KUBECONFIG.ok
          /\ t.kubeconfigPath =
                IF NewDefaultTester.kubeconfigPath # Empty
                THEN NewDefaultTester.kubeconfigPath
                ELSE environ.KUBECONFIG.val

\* a run that got past the clone with KUBECONFIG unset
C3_Witness ==
    /\ pc = "exit"
    /\ ~environ.KUBECONFIG.ok
    /\ Cloned /\ ~CloneFailed
    /\ err = "kubeconfig path not provided"

\* C4: with the help flag parsed, Execute prints the flag documentation and
\* returns nil; the run directory is not resolved, no metadata is written,
\* nothing is cloned or launched, and the process ends with status 0.
C4_HelpOnly ==
    help =>
        /\ printed
        /\ ExecuteReturned
        /\ err = "nil"
        /\ t.runDir = NewDefaultTester.runDir
        /\ metadata = 0
        /\ ~Cloned
        /\ ~Launched
        /\ (pc = "exit" => exitCode = 0)

\* a finished run that was asked for help
C4_Witness == help /\ pc = "exit" /\ printed

\* C5, what holds of every state: the metadata write, the clone and the launch
\* happen at most once, and an error is only ever held on the way out to Main,
\* whose exit status is then the fatal one.
C5_State ==
    /\ metadata <= 1
    /\ Len(clones) <= 1
    /\ Len(launches) <= 1
    /\ err # "nil" => ExecuteReturned
    /\ (pc = "exit" /\ err # "nil") => exitCode = FatalExit

\* C5, what holds of every step: the position only moves forward, and once an
\* error is held the only step left is Main's fatal exit, which writes no
\* metadata, clones nothing and launches nothing.
C5_Step ==
    /\ Rank(pc') > Rank(pc)
    /\ err # "nil" =>
          /\ pc = "Main" /\ pc' = "exit"
          /\ exitCode' = FatalExit
          /\ UNCHANGED <<err, metadata, clones, launches>>

\* C5: a run moves only forward through its steps, tries the clone and the
\* launch at most once each, and after the first failing step runs no later
\* step: the error reaches Main, which ends the process fatally.
C5_ForwardOnly == [](C5_State) /\ [][C5_Step]_vars

\* a run that cloned and launched once each and ended fatally
C5_Witness ==
    /\ pc = "exit"
    /\ Len(clones) = 1
    /\ Len(launches) = 1
    /\ exitCode = FatalExit

\* C6 as stated: every launched vector holds exactly one --nodes token, which
\* is --nodes=<Parallel>, whatever GinkgoArgs is.
C6_AsStated ==
    \A i \in 1..Len(launches) :
        /\ Cardinality(NodesTokens(launches[i].args)) = 1
        /\ \A j \in NodesTokens(launches[i].args) :
              launches[i].args[j] = NodesFlag \o Itoa(t.Parallel)

\* C6 amended: the token right after those split from GinkgoArgs is
\* --nodes=<Parallel>, and it is the only --nodes token the program adds: the
\* vector holds one --nodes token more than the tokens split from GinkgoArgs.
C6_OneNodesAdded ==
    \A i \in 1..Len(launches) :
        /\ Len(launches[i].args) > Len(ExtraArgs)
        /\ launches[i].args[Len(ExtraArgs) + 1] = NodesFlag \o Itoa(t.Parallel)
        /\ Cardinality(NodesTokens(launches[i].args))
              = 1 + Cardinality(NodesTokens(ExtraArgs))

\* a launch whose GinkgoArgs brought a --nodes token of its own
C6_Witness ==
    /\ Launched
    /\ NodesTokens(ExtraArgs) # {}
    /\ Cardinality(NodesTokens(launches[1].args)) = 2

\* C7: whenever the clone or the launch has been performed, Parallel and
\* FlakeAttempts are at least 1 and Timeout is not negative.
C7_PositiveConfiguration ==
    (Cloned \/ Launched) =>
        /\ t.Parallel >= 1
        /\ t.FlakeAttempts >= 1
        /\ t.Timeout >= 0

\* C8: Test returns an error exactly when a step before the launch failed or
\* the child exited non-zero, and the exit status of the process is non-zero
\* exactly when Execute returned an error.
C8_MirrorsChild ==
    /\ TestReturned =>
          (err # "nil" <=>
              \/ ~Launched
              \/ \E i \in 1..Len(launches) :
                    launches[i].started /\ launches[i].exit # 0)
    /\ pc = "exit" => (exitCode # 0 <=> err # "nil")

\* C9: whenever the subprocess is launched, the executable is a resolved
\* (non-empty) runner path and the token between --nodes= and "--" is a
\* resolved (non-empty) suite path.
C9_ResolvedPaths ==
    \A i \in 1..Len(launches) :
        /\ launches[i].path # Empty
        /\ launches[i].path = t.ginkgoPath
        /\ t.e2eTestPath # Empty
        /\ launches[i].args[Len(ExtraArgs) + 2] = t.e2eTestPath

\* C10: every clone goes into the run directory, which is the value of
\* KUBETEST2_RUN_DIR when it is set, even to "", and the working directory
\* otherwise; when the working directory cannot be had nothing is cloned.
C10_RunDir ==
    /\ \A i \in 1..Len(clones) :
          /\ clones[i].dir = t.runDir
          /\ clones[i].dir = IF environ.KUBETEST2_RUN_DIR.ok
                             THEN environ.KUBETEST2_RUN_DIR.val
                             ELSE Cwd
    /\ err = "failed to set run dir" =>
          /\ ~environ.KUBETEST2_RUN_DIR.ok
          /\ ExecuteReturned
          /\ ~Cloned

\* a clone made with KUBETEST2_RUN_DIR set to the empty string
C10_Witness ==
    /\ Cloned
    /\ environ.KUBETEST2_RUN_DIR = EnvSet(Empty)
    /\ clones[1].dir = Empty

=============================================================================
